---- MODULE Spec2Model ----
(***************************************************************************)
(* Conversation data-access module of wizeprompt (src/unnamed/part_000):   *)
(* the Conversation and Message tables and the eight request functions     *)
(* that read and write them through the Prisma client.                     *)
(*                                                                         *)
(* One request runs at a time.  Every function is one step, except         *)
(* deleteConversationById, whose two writes (message.deleteMany, then      *)
(* conversation.delete) are two steps, so that the state between them is   *)
(* a state of the model.  The Prisma client behaves as documented: update  *)
(* and delete reject when no row matches, findUnique returns null.  No     *)
(* other ORM failure is modelled here.  The variable writes only bounds    *)
(* the exploration: it counts the successful writes of a behaviour.        *)
(***************************************************************************)
EXTENDS Integers, Sequences, FiniteSets, TLC

(***************************************************************************)
(* Bounds of the exploration.                                              *)
(***************************************************************************)
\* Successful writes (create, update, deactivate, delete) in one behaviour.
MaxWrites == 2
\* Messages of the conversation the database is seeded with.
MaxSeedMessages == 2

(***************************************************************************)
(* Text.  A JavaScript string is a sequence of one-character strings.      *)
(***************************************************************************)
EmptyString == << >>
BlankString == <<" ", " ">>
TitleTest   == <<"T", "e", "s", "t">>
TitleSeed   == <<"S", "e", "e", "d">>
TitleNew    == <<" ", "N", "e", "w">>

IsWhitespace(c) == c = " "

RECURSIVE TrimStart(_)
TrimStart(s) ==
  IF s # << >> /\ IsWhitespace(Head(s)) THEN TrimStart(Tail(s)) ELSE s

RECURSIVE TrimEnd(_)
TrimEnd(s) ==
  IF s # << >> /\ IsWhitespace(s[Len(s)])
    THEN TrimEnd(SubSeq(s, 1, Len(s) - 1))
    ELSE s

\* String.prototype.trim
Trim(s) == TrimEnd(TrimStart(s))

\* An optional string property: absent (undefined) or present with a value.
Undefined   == [def |-> FALSE, v |-> EmptyString]
Given(s)    == [def |-> TRUE, v |-> s]
\* JavaScript truthiness of an optional string: undefined and "" are falsy.
TruthyString(o) == o.def /\ o.v # EmptyString

(***************************************************************************)
(* JSON values and JSON text.  A value is a number, a string or an object  *)
(* (its members in insertion order); a text is a sequence of tokens.       *)
(***************************************************************************)
JUndefined  == [t |-> "undefined"]
JNum(lit)   == [t |-> "num", lit |-> lit]
JStr(s)     == [t |-> "string", s |-> s]
JObj(kv)    == [t |-> "obj", kv |-> kv]
Member(k, v) == [k |-> k, v |-> v]
EmptyObject == JObj(<< >>)

Tok(kind, s) == [tk |-> kind, s |-> s]
LBrace == Tok("punct", "{")
RBrace == Tok("punct", "}")
Colon  == Tok("punct", ":")
Comma  == Tok("punct", ",")

\* JavaScript truthiness of a JSON value.
Truthy(v) ==
  CASE v.t = "undefined" -> FALSE
    [] v.t = "num"       -> v.lit # "0"
    [] v.t = "string"    -> v.s # ""
    [] OTHER             -> TRUE

RECURSIVE JSONstringify(_)
RECURSIVE StringifyMembers(_, _)
StringifyMembers(kv, i) ==
  IF i > Len(kv) THEN << >>
  ELSE (IF i > 1 THEN <<Comma>> ELSE << >>)
         \o <<Tok("str", kv[i].k), Colon>>
         \o JSONstringify(kv[i].v)
         \o StringifyMembers(kv, i + 1)

\* JSON.stringify: the token sequence of a value.
JSONstringify(v) ==
  CASE v.t = "num"    -> <<Tok("num", v.lit)>>
    [] v.t = "string" -> <<Tok("str", v.s)>>
    [] OTHER          -> <<LBrace>> \o StringifyMembers(v.kv, 1) \o <<RBrace>>

ParseFail == [ok |-> FALSE, val |-> JUndefined, rest |-> << >>]
ParseOk(v, rest) == [ok |-> TRUE, val |-> v, rest |-> rest]

RECURSIVE ParseValue(_)
RECURSIVE ParseMembers(_, _)
ParseMembers(ts, acc) ==
  IF Len(ts) >= 3 /\ ts[1].tk = "str" /\ ts[2] = Colon
    THEN LET r    == ParseValue(SubSeq(ts, 3, Len(ts)))
             acc2 == Append(acc, Member(ts[1].s, r.val))
         IN  IF ~r.ok \/ r.rest = << >> THEN ParseFail
             ELSE IF Head(r.rest) = RBrace THEN ParseOk(JObj(acc2), Tail(r.rest))
             ELSE IF Head(r.rest) = Comma THEN ParseMembers(Tail(r.rest), acc2)
             ELSE ParseFail
    ELSE ParseFail

ParseValue(ts) ==
  IF ts = << >> THEN ParseFail
  ELSE IF Head(ts).tk = "num" THEN ParseOk(JNum(Head(ts).s), Tail(ts))
  ELSE IF Head(ts).tk = "str" THEN ParseOk(JStr(Head(ts).s), Tail(ts))
  ELSE IF Head(ts) = LBrace
    THEN IF Len(ts) >= 2 /\ ts[2] = RBrace
           THEN ParseOk(EmptyObject, SubSeq(ts, 3, Len(ts)))
           ELSE ParseMembers(Tail(ts), << >>)
  ELSE ParseFail

\* JSON.parse: ok is FALSE where JSON.parse throws a SyntaxError.
JSONparse(ts) ==
  LET r == ParseValue(ts)
  IN  IF r.ok /\ r.rest = << >> THEN r ELSE ParseFail

RECURSIVE GetFrom(_, _, _)
GetFrom(kv, key, i) ==
  IF i = 0 THEN JUndefined
  ELSE IF kv[i].k = key THEN kv[i].v
  ELSE GetFrom(kv, key, i - 1)

\* obj[key] of a parsed object: the member's value, or undefined.
GetProperty(obj, key) ==
  IF obj.t = "obj" THEN GetFrom(obj.kv, key, Len(obj.kv)) ELSE JUndefined


\* String(x): a string is itself, null is "null", an object is "[object Object]".
JSString(v) ==
  CASE v.t = "text" -> v.s
    [] v.t = "null" -> <<Tok("ident", "null")>>
    [] OTHER        -> <<Tok("punct", "["), Tok("ident", "object"),
                         Tok("ident", "Object"), Tok("punct", "]")>>

\* A stored string value, and the stored null.
Text(ts) == [t |-> "text", s |-> ts]
Null     == [t |-> "null"]
\* JavaScript truthiness of a stored column value.
TruthyColumn(v) ==
  CASE v.t = "null" -> FALSE
    [] v.t = "text" -> v.s # << >>
    [] OTHER        -> Truthy(v)

(***************************************************************************)
(* The tables the module reads and never writes: User and Model.           *)
(***************************************************************************)
ModelTable == (1 :> [name |-> "gpt-4"]) @@ (2 :> [name |-> "llama-2"])

\* User 1 keeps defaults for model "gpt-4" only; user 2 keeps none.
GlobalsOfUser1 ==
  JObj(<<Member("gpt-4", JObj(<<Member("temperature", JNum("0.5"))>>))>>)
UserTable ==
  (1 :> [globalParameters |-> Text(JSONstringify(GlobalsOfUser1))])
    @@ (2 :> [globalParameters |-> Null])

(***************************************************************************)
(* Inputs of the requests.                                                 *)
(***************************************************************************)
\* Payloads of updateConversationParameters.
PayloadTemp     == JObj(<<Member("temperature", JNum("0.5"))>>)
PayloadFull     == JObj(<<Member("userContext", JStr("dev")),
                          Member("temperature", JNum("1"))>>)
PayloadTooHot   == JObj(<<Member("temperature", JNum("1.5"))>>)
PayloadNoTemp   == JObj(<<Member("userContext", JStr("dev"))>>)
Payloads        == {PayloadTemp, PayloadFull, PayloadTooHot, PayloadNoTemp}

\* areValidModelParameters: the required field is present and in range.
areValidModelParameters(p) ==
  /\ p.t = "obj"
  /\ GetProperty(p, "temperature").t = "num"
  /\ GetProperty(p, "temperature").lit \in {"0", "0.5", "1"}

\* An optional tag list: absent, or a list of {id} objects (its ids).
NoTags      == [def |-> FALSE, ids |-> {}]
TagList(S)  == [def |-> TRUE, ids |-> S]

CreateInput(u, m, t, tg, p, a, g) ==
  [idUser |-> u, idModel |-> m, title |-> t, tags |-> tg, parameters |-> p,
   active |-> a, useGlobalParameters |-> g]

\* Inputs of createConversation: for every existing user and model, calls
\* with the flag unset and set that supply nothing else, and calls with the
\* flag false and true that also supply tags, parameters and active=false;
\* every combination of a falsy, missing or present user and model; and calls
\* without a title and with an empty one.
CreateInputs ==
  { CreateInput(u, m, Given(TitleTest), NoTags, JUndefined, "undefined", g) :
      u \in {1, 2}, m \in {1, 2}, g \in {"undefined", "true"} }
  \cup
  { CreateInput(u, m, Given(TitleTest), TagList({1}), PayloadFull, "false", g) :
      u \in {1, 2}, m \in {1, 2}, g \in {"false", "true"} }
  \cup
  { CreateInput(u, m, Given(TitleTest), NoTags, JUndefined, "undefined", "true") :
      u \in {0, 1, 3}, m \in {0, 1, 3} }
  \cup
  { CreateInput(1, 1, t, NoTags, JUndefined, "undefined", "undefined") :
      t \in {Undefined, Given(EmptyString)} }

\* Inputs of updateConversationById: updatedInfo and includeRelatedEntities.
UpdateInput(t, tg, inc) ==
  [updatedInfo |-> [title |-> t, tags |-> tg], includeRelatedEntities |-> inc]
UpdateInputs ==
  { UpdateInput(Given(TitleNew), NoTags, FALSE),
    UpdateInput(Given(TitleNew), TagList({2}), TRUE),
    UpdateInput(Undefined, TagList({}), FALSE),
    UpdateInput(Given(EmptyString), NoTags, FALSE),
    UpdateInput(Given(EmptyString), TagList({2}), FALSE),
    UpdateInput(Given(BlankString), TagList({2}), FALSE) }
\* User ids a request is called with: zero, the two users, and one not.
UserArgs == {0, 1, 2, 3}

(***************************************************************************)
(* State.                                                                  *)
(***************************************************************************)
VARIABLES
  conversation,  \* the Conversation table: id -> row
  message,       \* the Message table: a set of rows
  nextId,        \* the autoincrement of Conversation.id
  pc,            \* "idle", or "delete" between the two writes of a delete
  pcId,          \* the id the running deleteConversationById was called with
  resp,          \* the response of the last request (status 0 while it runs)
  writes,        \* successful writes so far
  modal,         \* ModalParametersGPT: its props, its context and its state
  list           \* MessageList: its props, its state and the scroll position

vars == <<conversation, message, nextId, pc, pcId, resp, writes>>
\* The components of the conversation page, and the whole state.
page == <<modal, list>>
allVars == <<vars, page>>

\* A component that is not rendered.
Unmounted == [mounted |-> FALSE]

Ids    == DOMAIN conversation
\* Ids a request is called with: zero, every id handed out, and one not.
IdArgs == 0 .. nextId

Response(op, args, status, msg, data) ==
  [op |-> op, args |-> args, status |-> status, message |-> msg, data |-> data]

\* No response yet: the request is between its two writes.
InFlight(op, args) == Response(op, args, 0, "", {})

MessagesOf(id) == {m \in message : m.idConversation = id}

\* The database a behaviour starts from: one conversation of user 1 with a tag
\* and messages, as createConversation and the chat leave it.
SeedConversations ==
  (1 :> [id |-> 1, idUser |-> 1, idModel |-> 1, title |-> TitleSeed,
         active |-> TRUE, parameters |-> Text(JSONstringify(EmptyObject)),
         tags |-> {1}])
SeedIds == DOMAIN SeedConversations

Init ==
  /\ conversation = SeedConversations
  /\ message = {[id |-> k, idConversation |-> 1] : k \in 1 .. MaxSeedMessages}
  /\ nextId = Cardinality(SeedIds) + 1
  /\ pc = "idle"
  /\ pcId = 0
  /\ resp = Response("none", [none |-> TRUE], 0, "", {})
  /\ writes = 0
  /\ modal = Unmounted
  /\ list = Unmounted

\* A request that writes nothing.
Reply(r) ==
  /\ resp' = r
  /\ UNCHANGED <<conversation, message, nextId, pc, pcId, writes>>

(***************************************************************************)
(* Prisma client calls.                                                    *)
(***************************************************************************)
\* prisma.user.findUnique / prisma.model.findUnique: the row or null.
UserExists(idUser)   == idUser \in DOMAIN UserTable
ModelExists(idModel) == idModel \in DOMAIN ModelTable

\* prisma.conversation.update / delete reject with this when no row matches.
RecordNotFound == "Record to update not found."
RecordToDeleteNotFound == "Record to delete does not exist."


\* The scalar columns of a row, and a row as a response carries it: include is
\* "full" (user, model, messages, tags), "tags" or "none".
ScalarsOf(r) ==
  [id |-> r.id, idUser |-> r.idUser, idModel |-> r.idModel, title |-> r.title,
   active |-> r.active, parameters |-> r.parameters]
View(r, include, msgs) ==
  [row |-> ScalarsOf(r), include |-> include,
   tags |-> IF include = "none" THEN {} ELSE r.tags,
   messages |-> IF include = "full" THEN msgs ELSE {}]

\* A JavaScript number used as a condition: 0 is falsy.
FalsyNumber(n) == n = 0

(***************************************************************************)
(* getAllConversationsByUserId                                             *)
(***************************************************************************)
\* Mutant: the query without its active filter.
FindManyOfUser(idUser) ==
  {conversation[i] : i \in {j \in Ids : conversation[j].idUser = idUser}}

\* prisma.conversation.findMany({where: {idUser, active: true}})
FindManyActive(idUser) ==
  {conversation[i] : i \in {j \in Ids : /\ conversation[j].idUser = idUser
                                        /\ conversation[j].active = TRUE}}

getAllConversationsByUserId(idUser) ==
  /\ pc = "idle"
  /\ LET op == "getAllConversationsByUserId"
         args == [idUser |-> idUser]
     IN  IF FalsyNumber(idUser) \/ idUser < 0
           THEN Reply(Response(op, args, 400, "Invalid user ID", {}))
         ELSE IF ~UserExists(idUser)
           THEN Reply(Response(op, args, 404, "User not found", {}))
         ELSE IF Cardinality(FindManyActive(idUser)) = 0
           THEN Reply(Response(op, args, 404, "No conversations found for this user", {}))
         ELSE Reply(Response(op, args, 200, "",
                      {View(r, "tags", {}) : r \in FindManyActive(idUser)}))

(***************************************************************************)
(* getConversationById                                                     *)
(***************************************************************************)
getConversationById(id) ==
  /\ pc = "idle"
  /\ LET op == "getConversationById"
         args == [id |-> id]
     IN  IF FalsyNumber(id) \/ id <= 0
           THEN Reply(Response(op, args, 400, "Invalid conversation ID", {}))
         ELSE IF id \notin Ids
           THEN Reply(Response(op, args, 404, "Conversation not found", {}))
         ELSE Reply(Response(op, args, 200, "",
                      {View(conversation[id], "full", MessagesOf(id))}))

(***************************************************************************)
(* createConversation                                                      *)
(***************************************************************************)
\* Mutant: the checks without the test for falsy fields.
CreateCheckExistenceOnly(input) ==
  IF ~UserExists(input.idUser)
    THEN [status |-> 404, message |-> "User not found"]
  ELSE IF ~ModelExists(input.idModel)
    THEN [status |-> 404, message |-> "Model not found"]
  ELSE [status |-> 0, message |-> ""]

\* The checks before the create: 400, 404 (user), 404 (model), or 0 to go on.
CreateCheck(input) ==
  IF FalsyNumber(input.idUser) \/ FalsyNumber(input.idModel)
       \/ ~TruthyString(input.title)
    THEN [status |-> 400, message |-> "Invalid input for creating conversation"]
  ELSE IF ~UserExists(input.idUser)
    THEN [status |-> 404, message |-> "User not found"]
  ELSE IF ~ModelExists(input.idModel)
    THEN [status |-> 404, message |-> "Model not found"]
  ELSE [status |-> 0, message |-> ""]

\* userGlobalParameters: the parse of the user's globalParameters, or {}.
UserGlobalParameters(idUser) ==
  LET g == UserTable[idUser].globalParameters
  IN  IF TruthyColumn(g) THEN JSONparse(JSString(g)) ELSE ParseOk(EmptyObject, << >>)

\* Mutant: the user's defaults are used whatever the flag says.
ResolveParametersAlwaysGlobal(input) ==
  LET modelParameters ==
        GetProperty(UserGlobalParameters(input.idUser).val,
                    ModelTable[input.idModel].name)
  IN  IF Truthy(modelParameters)
        THEN Text(JSONstringify(modelParameters))
        ELSE Text(JSONstringify(EmptyObject))

\* The parameters column of the new row.
ResolveParameters(input) ==
  LET modelParameters ==
        GetProperty(UserGlobalParameters(input.idUser).val,
                    ModelTable[input.idModel].name)
      parameters ==
        IF input.useGlobalParameters = "true" THEN modelParameters ELSE JUndefined
  IN  IF Truthy(parameters)
        THEN Text(JSONstringify(parameters))
        ELSE Text(JSONstringify(EmptyObject))

\* Mutant: the spread comes last, so the caller's active value is kept.
CreateDataActiveFromInput(input, id) ==
  [id |-> id, idUser |-> input.idUser, idModel |-> input.idModel,
   title |-> input.title.v,
   parameters |-> ResolveParameters(input),
   tags |-> IF input.tags.def THEN input.tags.ids ELSE {},
   active |-> input.active # "false"]

\* The data of prisma.conversation.create: the input spread, then the three
\* fields the function sets itself.  (The spread also carries the flag
\* useGlobalParameters; no function reads it back, and the row leaves it out.)
CreateData(input, id) ==
  [id |-> id, idUser |-> input.idUser, idModel |-> input.idModel,
   title |-> input.title.v,
   parameters |-> ResolveParameters(input),
   tags |-> IF input.tags.def THEN input.tags.ids ELSE {},
   active |-> TRUE]

createConversation(input) ==
  /\ pc = "idle"
  /\ LET op == "createConversation"
         check == CreateCheck(input)
     IN  IF check.status # 0
           THEN Reply(Response(op, input, check.status, check.message, {}))
         ELSE IF ~UserGlobalParameters(input.idUser).ok
           THEN Reply(Response(op, input, 500, "Unexpected token in JSON", {}))
         ELSE /\ writes < MaxWrites
              /\ conversation' = conversation @@ (nextId :> CreateData(input, nextId))
              /\ nextId' = nextId + 1
              /\ writes' = writes + 1
              /\ resp' = Response(op, input, 201, "",
                                  {View(CreateData(input, nextId), "full", {})})
              /\ UNCHANGED <<message, pc, pcId>>

(***************************************************************************)
(* updateConversationById                                                  *)
(***************************************************************************)
\* Mutant: the given tags are connected to the ones already attached.
UpdateDataConnectsTags(r, updatedInfo) ==
  [r EXCEPT !.tags  = IF updatedInfo.tags.def THEN @ \cup updatedInfo.tags.ids ELSE @,
            !.title = IF TruthyString(updatedInfo.title) THEN updatedInfo.title.v ELSE @]

\* The data of the update: tags set when a list is given, title when truthy.
UpdateData(r, updatedInfo) ==
  [r EXCEPT !.tags  = IF updatedInfo.tags.def THEN updatedInfo.tags.ids ELSE @,
            !.title = IF TruthyString(updatedInfo.title) THEN updatedInfo.title.v ELSE @]

updateConversationById(id, updatedInfo, includeRelatedEntities) ==
  /\ pc = "idle"
  /\ LET op == "updateConversationById"
         args == [id |-> id, updatedInfo |-> updatedInfo,
                  includeRelatedEntities |-> includeRelatedEntities]
     IN  IF FalsyNumber(id) \/ id <= 0
           THEN Reply(Response(op, args, 400, "Invalid conversation ID", {}))
         ELSE IF TruthyString(updatedInfo.title) /\ Trim(updatedInfo.title.v) = EmptyString
           THEN Reply(Response(op, args, 400, "Title cannot be empty", {}))
         ELSE IF id \notin Ids
           THEN Reply(Response(op, args, 500, RecordNotFound, {}))
         ELSE /\ writes < MaxWrites
              /\ conversation' =
                   [conversation EXCEPT ![id] = UpdateData(@, updatedInfo)]
              /\ writes' = writes + 1
              /\ resp' = Response(op, args, 200, "",
                           {View(UpdateData(conversation[id], updatedInfo),
                                 IF includeRelatedEntities THEN "full" ELSE "tags",
                                 MessagesOf(id))})
              /\ UNCHANGED <<message, nextId, pc, pcId>>

(***************************************************************************)
(* updateConversationParameters                                            *)
(***************************************************************************)
\* Mutant: the payload is merged into the stored object ({...old, ...new}).
MergeMembers(old, new) ==
  [i \in 1 .. Len(old) |->
     IF GetProperty(JObj(new), old[i].k).t = "undefined"
       THEN old[i]
       ELSE Member(old[i].k, GetProperty(JObj(new), old[i].k))]
    \o SelectSeq(new, LAMBDA m : GetProperty(JObj(old), m.k).t = "undefined")
ParametersDataMerged(r, parameters) ==
  [r EXCEPT !.parameters =
     IF @.t = "obj" THEN JObj(MergeMembers(@.kv, parameters.kv)) ELSE parameters]

\* The data of the update: the payload becomes the parameters column.
ParametersData(r, parameters) == [r EXCEPT !.parameters = parameters]

updateConversationParameters(id, parameters) ==
  /\ pc = "idle"
  /\ LET op == "updateConversationParameters"
         args == [id |-> id, parameters |-> parameters]
     IN  IF ~areValidModelParameters(parameters)
           THEN Reply(Response(op, args, 400, "Invalid model parameters", {}))
         ELSE IF id \notin Ids
           THEN Reply(Response(op, args, 500, RecordNotFound, {}))
         ELSE /\ writes < MaxWrites
              /\ conversation' =
                   [conversation EXCEPT ![id] = ParametersData(@, parameters)]
              /\ writes' = writes + 1
              /\ resp' = Response(op, args, 200, "",
                           {View(ParametersData(conversation[id], parameters),
                                 "none", {})})
              /\ UNCHANGED <<message, nextId, pc, pcId>>

(***************************************************************************)
(* deactivateConversationById, deactivateAllConversationsByUserId          *)
(***************************************************************************)
\* Mutant: the update leaves the flag as it is.
DeactivateDataKeepsFlag(r) == r
\* Mutant: the update also detaches the tags.
DeactivateDataDropsTags(r) == [r EXCEPT !.active = FALSE, !.tags = {}]

\* The data of both updates: active becomes false.
DeactivateData(r) == [r EXCEPT !.active = FALSE]

deactivateConversationById(id) ==
  /\ pc = "idle"
  /\ LET op == "deactivateConversationById"
         args == [id |-> id]
     IN  IF FalsyNumber(id) \/ id <= 0
           THEN Reply(Response(op, args, 400, "Invalid conversation ID", {}))
         ELSE IF id \notin Ids
           THEN Reply(Response(op, args, 500, RecordNotFound, {}))
         ELSE /\ writes < MaxWrites
              /\ conversation' = [conversation EXCEPT ![id] = DeactivateData(@)]
              /\ writes' = writes + 1
              /\ resp' = Response(op, args, 200, "Conversation marked as inactive", {})
              /\ UNCHANGED <<message, nextId, pc, pcId>>

\* Mutant: the update without its where clause.
MatchedAll(idUser) == Ids

\* prisma.conversation.updateMany({where: {idUser}}): the rows it matches.
MatchedByUser(idUser) == {i \in Ids : conversation[i].idUser = idUser}

deactivateAllConversationsByUserId(idUser) ==
  /\ pc = "idle"
  /\ LET op == "deactivateAllConversationsByUserId"
         args == [idUser |-> idUser]
         count == Cardinality(MatchedByUser(idUser))
     IN  IF ~UserExists(idUser)
           THEN Reply(Response(op, args, 404, "User ID does not exist", {}))
         ELSE IF count = 0
           THEN Reply(Response(op, args, 404, "No conversations found for this user", {}))
         ELSE /\ writes < MaxWrites
              /\ conversation' =
                   [i \in Ids |-> IF i \in MatchedByUser(idUser)
                                    THEN DeactivateData(conversation[i])
                                    ELSE conversation[i]]
              /\ writes' = writes + 1
              /\ resp' = Response(op, args, 200, "Conversations marked as inactive",
                                  {[count |-> count]})
              /\ UNCHANGED <<message, nextId, pc, pcId>>

(***************************************************************************)
(* deleteConversationById: validation and message.deleteMany, then         *)
(* conversation.delete and the response.                                   *)
(***************************************************************************)
\* Mutant: the messages are left in place.
DeleteNoMessages(id) == message

\* prisma.message.deleteMany({where: {idConversation: id}}): what is left.
DeleteManyMessages(id) == {m \in message : m.idConversation # id}

deleteConversationById(id) ==
  /\ pc = "idle"
  /\ IF FalsyNumber(id) \/ id <= 0
       THEN Reply(Response("deleteConversationById", [id |-> id], 400,
                           "Invalid conversation ID", {}))
       ELSE /\ id \in Ids => writes < MaxWrites
            /\ message' = DeleteManyMessages(id)
            /\ pc' = "delete"
            /\ pcId' = id
            /\ writes' = IF id \in Ids THEN writes + 1 ELSE writes
            /\ resp' = InFlight("deleteConversationById", [id |-> id])
            /\ UNCHANGED <<conversation, nextId>>

\* Mutant: the delete resolves and the row stays.
DeleteRowKeepsRow(id) == conversation

\* prisma.conversation.delete({where: {id}}): the table without the row.
DeleteRow(id) == [i \in Ids \ {id} |-> conversation[i]]

deleteConversationRow ==
  /\ pc = "delete"
  /\ IF pcId \in Ids
       THEN /\ conversation' = DeleteRow(pcId)
            /\ resp' = Response("deleteConversationById", [id |-> pcId], 200,
                         "Conversation and associated messages successfully deleted", {})
       ELSE /\ resp' = Response("deleteConversationById", [id |-> pcId], 500,
                         RecordToDeleteNotFound, {})
            /\ UNCHANGED conversation
  /\ pc' = "idle"
  /\ pcId' = 0
  /\ UNCHANGED <<message, nextId, writes>>

(***************************************************************************)
(* The requests a client may send.                                         *)
(***************************************************************************)
Next ==
  \/ \E idUser \in UserArgs :
       getAllConversationsByUserId(idUser) /\ UNCHANGED page
  \/ \E id \in IdArgs : getConversationById(id) /\ UNCHANGED page
  \/ \E input \in CreateInputs : createConversation(input) /\ UNCHANGED page
  \/ \E id \in IdArgs, u \in UpdateInputs :
       /\ updateConversationById(id, u.updatedInfo, u.includeRelatedEntities)
       /\ UNCHANGED page
  \/ \E id \in IdArgs, parameters \in Payloads :
       updateConversationParameters(id, parameters) /\ UNCHANGED page
  \/ \E id \in IdArgs : deactivateConversationById(id) /\ UNCHANGED page
  \/ \E idUser \in UserArgs :
       deactivateAllConversationsByUserId(idUser) /\ UNCHANGED page
  \/ \E id \in IdArgs : deleteConversationById(id) /\ UNCHANGED page
  \/ deleteConversationRow /\ UNCHANGED page

Spec == Init /\ [][Next]_allVars

(***************************************************************************)
(* deleteConversationById when the database rejects one of its two writes: *)
(* the catch block answers 500 with the error's message.                   *)
(***************************************************************************)
\* The message of the error a rejected write throws.
DatabaseUnreachable == "Can't reach database server"

\* prisma.message.deleteMany rejects: nothing was written.
deleteManyMessagesRejected(id) ==
  /\ pc = "idle"
  /\ ~(FalsyNumber(id) \/ id <= 0)
  /\ Reply(Response("deleteConversationById", [id |-> id], 500,
                    DatabaseUnreachable, {}))

\* prisma.conversation.delete rejects after message.deleteMany resolved.
deleteConversationRowRejected ==
  /\ pc = "delete"
  /\ resp' = Response("deleteConversationById", [id |-> pcId], 500,
                      DatabaseUnreachable, {})
  /\ pc' = "idle"
  /\ pcId' = 0
  /\ UNCHANGED <<conversation, message, nextId, writes>>

NextRejecting ==
  \/ Next
  \/ \E id \in IdArgs : deleteManyMessagesRejected(id) /\ UNCHANGED page
  \/ deleteConversationRowRejected /\ UNCHANGED page

SpecRejecting == Init /\ [][NextRejecting]_allVars


(***************************************************************************)
(* ModalParametersGPT: the three fields, the "use global context" switch   *)
(* and Save. Every event is taken with the render and the effect that      *)
(* follow it: React runs a pending effect before it handles the next event.*)
(* Temperatures are in tenths.                                             *)
(***************************************************************************)
\* The slider: minValue 0, maxValue 1, step 0.1.
SliderMax == 10
\* The longest text an edit of a textarea leaves in it.
MaxTextLen == 4

\* The context a provider gives: the user with global parameters, or none yet.
NoPrismaUser == [loaded |-> FALSE]
PrismaUser(userContext, responseContext, temperature) ==
  [loaded |-> TRUE, userContext |-> userContext,
   responseContext |-> responseContext, temperature |-> temperature]
GlobalUserContext     == <<"G">>
GlobalResponseContext == <<"R">>
PrismaUsers ==
  {NoPrismaUser} \cup
  {PrismaUser(GlobalUserContext, GlobalResponseContext, t) : t \in 0 .. SliderMax}

\* The props the page renders the modal with.
ModalProps ==
  {[userContext |-> <<"u">>, responseContext |-> <<"r">>, temperature |-> 7]}

\* a || b on strings and on numbers: b when a is falsy.
OrText(a, b)   == IF a = EmptyString THEN b ELSE a
OrNumber(a, b) == IF a = 0 THEN b ELSE a

FormParams(userContext, responseContext, temperature) ==
  [userContext |-> userContext, responseContext |-> responseContext,
   temperature |-> temperature]

\* No saveParameters call yet.
NotSaved == [called |-> FALSE]

\* The component after its first render: useState initial values.
MountedModal(props, prismaUser) ==
  [mounted |-> TRUE, isOpen |-> TRUE, props |-> props, prismaUser |-> prismaUser,
   isSelected |-> FALSE,
   updatedUserContext |-> props.userContext,
   updatedResponseContext |-> props.responseContext,
   updatedTemperature |-> props.temperature,
   globalFormParams |-> FormParams(props.userContext, props.responseContext,
                                   props.temperature),
   saved |-> NotSaved]

\* prismaUser?.globalParameters?.x || fallback
GlobalUserContextOf(m) ==
  IF m.prismaUser.loaded THEN OrText(m.prismaUser.userContext, EmptyString)
  ELSE EmptyString
GlobalResponseContextOf(m) ==
  IF m.prismaUser.loaded THEN OrText(m.prismaUser.responseContext, EmptyString)
  ELSE EmptyString
GlobalTemperatureOf(m) ==
  IF m.prismaUser.loaded THEN OrNumber(m.prismaUser.temperature, m.props.temperature)
  ELSE m.props.temperature

\* `${a} ${b}`
Concatenated(a, b) == a \o <<" ">> \o b

\* The body of the effect: the form parameters it sets.
ResolvedFormParams(m) ==
  IF m.isSelected
    THEN FormParams(Concatenated(GlobalUserContextOf(m), m.updatedUserContext),
                    Concatenated(GlobalResponseContextOf(m), m.updatedResponseContext),
                    GlobalTemperatureOf(m))
    ELSE FormParams(m.updatedUserContext, m.updatedResponseContext,
                    m.updatedTemperature)

\* The dependency array of the effect.
EffectDeps(m) ==
  <<m.isSelected, m.prismaUser, m.props.temperature, m.updatedResponseContext,
    m.updatedTemperature, m.updatedUserContext>>

\* The render after an event: the effect runs when a dependency changed.
Rendered(before, after) ==
  IF EffectDeps(after) # EffectDeps(before)
    THEN [after EXCEPT !.globalFormParams = ResolvedFormParams(after)]
    ELSE after

\* What one edit makes of the text a textarea shows: a character typed at the
\* end, the last character deleted, the first character deleted.
Edits(shown) ==
  {v \in {shown \o <<"a">>} \cup
         (IF shown = EmptyString THEN {}
          ELSE {SubSeq(shown, 1, Len(shown) - 1), Tail(shown)}) :
     Len(v) <= MaxTextLen}
\* value={globalFormParams.userContext}, value={globalFormParams.responseContext}
Shown(field) == IF modal.mounted THEN modal.globalFormParams[field] ELSE EmptyString
\* The values the slider is moved to.
SliderValues == {0, 3, 7, SliderMax}

MountModal(props, prismaUser) ==
  /\ ~modal.mounted
  /\ modal' = MountedModal(props, prismaUser)
  /\ UNCHANGED <<vars, list>>

\* Textarea "User context": onChange.
ChangeUserContext(value) ==
  /\ modal.mounted /\ modal.isOpen
  /\ modal' = Rendered(modal, [modal EXCEPT !.globalFormParams.userContext = value,
                                            !.updatedUserContext = value])
  /\ UNCHANGED <<vars, list>>

\* Textarea "Response context": onChange.
ChangeResponseContext(value) ==
  /\ modal.mounted /\ modal.isOpen
  /\ modal' = Rendered(modal, [modal EXCEPT !.globalFormParams.responseContext = value,
                                            !.updatedResponseContext = value])
  /\ UNCHANGED <<vars, list>>

\* Slider: onValueChange.
ChangeTemperature(value) ==
  /\ modal.mounted /\ modal.isOpen
  /\ modal' = Rendered(modal, [modal EXCEPT !.globalFormParams.temperature = value,
                                            !.updatedTemperature = value])
  /\ UNCHANGED <<vars, list>>

\* Switch: onValueChange={setIsSelected}.
ToggleGlobalContext ==
  /\ modal.mounted /\ modal.isOpen
  /\ modal' = Rendered(modal, [modal EXCEPT !.isSelected = ~@])
  /\ UNCHANGED <<vars, list>>

\* Save: handleSave calls saveParameters(globalFormParams), onClose closes.
handleSave ==
  /\ modal.mounted /\ modal.isOpen
  /\ modal' = [modal EXCEPT !.saved = [called |-> TRUE, parameters |-> modal.globalFormParams],
                            !.isOpen = FALSE]
  /\ UNCHANGED <<vars, list>>

NextModal ==
  \/ \E props \in ModalProps, prismaUser \in PrismaUsers : MountModal(props, prismaUser)
  \/ \E value \in Edits(Shown("userContext")) : ChangeUserContext(value)
  \/ \E value \in Edits(Shown("responseContext")) : ChangeResponseContext(value)
  \/ \E value \in SliderValues : ChangeTemperature(value)
  \/ ToggleGlobalContext
  \/ handleSave

SpecModal == Init /\ [][NextModal]_allVars

(***************************************************************************)
(* MessageList: the messages prop, autoScroll, the effect on [autoScroll]  *)
(* and the scroll-to-bottom button. The viewport is where the window       *)
(* stands: at the end marker below so many messages, or away from it.      *)
(***************************************************************************)
\* The most messages the parent passes.
MaxListMessages == 8
\* The window does not stand at the end marker.
Away == -1

\* The component after its first render: autoScroll true, its effect pending.
MountedList(messages) ==
  [mounted |-> TRUE, messages |-> messages, autoScroll |-> TRUE,
   effectPending |-> TRUE, viewport |-> Away]

\* messagesEndRef.current?.scrollIntoView(): the window moves to the end
\* marker, below the messages rendered now.
scrollToBottom(l) == [l EXCEPT !.viewport = l.messages]

\* setAutoScroll(value): a change of the state schedules the effect.
setAutoScroll(l, value) ==
  [l EXCEPT !.autoScroll = value,
            !.effectPending = @ \/ (l.autoScroll # value)]

MountMessageList(messages) ==
  /\ ~list.mounted
  /\ list' = MountedList(messages)
  /\ UNCHANGED <<vars, modal>>

\* The effect, run after the render that scheduled it.
AutoScrollEffect ==
  /\ list.mounted /\ list.effectPending
  /\ LET ran == [list EXCEPT !.effectPending = FALSE]
     IN  list' = IF list.autoScroll
                   THEN scrollToBottom(setAutoScroll(scrollToBottom(ran), FALSE))
                   ELSE scrollToBottom(ran)
  /\ UNCHANGED <<vars, modal>>

\* The parent renders the list with one more message: autoScroll, the only
\* dependency of the effect, is as it was.
AppendMessage ==
  /\ list.mounted /\ list.messages < MaxListMessages
  /\ list' = [list EXCEPT !.messages = @ + 1]
  /\ UNCHANGED <<vars, modal>>

\* The button: onClick.
PressScrollToBottom ==
  /\ list.mounted
  /\ list' = scrollToBottom(setAutoScroll(list, TRUE))
  /\ UNCHANGED <<vars, modal>>

\* The user scrolls up.
ScrollAway ==
  /\ list.mounted /\ list.viewport # Away
  /\ list' = [list EXCEPT !.viewport = Away]
  /\ UNCHANGED <<vars, modal>>

NextList ==
  \/ \E messages \in 0 .. 1 : MountMessageList(messages)
  \/ AutoScrollEffect
  \/ AppendMessage
  \/ PressScrollToBottom
  \/ ScrollAway

\* React runs every effect it has scheduled.
SpecList == Init /\ [][NextList]_allVars /\ WF_allVars(AutoScrollEffect)

(***************************************************************************)
(* Properties.                                                             *)
(***************************************************************************)
\* The conversations a response lists, and the one conversation it carries.
ListedIds(r) == {v.row.id : v \in r.data}
Carried(r)   == CHOOSE v \in r.data : TRUE
\* The text of the empty object, token by token.
EmptyObjectText == Text(<<LBrace, RBrace>>)

\* C1: create with useGlobalParameters unset, for an existing user and model,
\* returns 201 with an active conversation whose parameters are {}; a
\* deactivateConversationById of the new id right after returns 200 and leaves
\* it inactive; the two reads write nothing; and while a conversation is
\* inactive getAllConversationsByUserId never lists it and getConversationById
\* returns it, status 200, with active=false.
C1_Step ==
  /\ ( /\ resp'.op = "createConversation"
       /\ UserExists(resp'.args.idUser) /\ ModelExists(resp'.args.idModel)
       /\ TruthyString(resp'.args.title)
       /\ resp'.args.useGlobalParameters = "undefined" )
     => /\ resp'.status = 201
        /\ Carried(resp').row.id = nextId
        /\ Carried(resp').row.active = TRUE
        /\ Carried(resp').row.parameters = EmptyObjectText
        /\ nextId \in DOMAIN conversation'
        /\ ScalarsOf(conversation'[nextId]) = Carried(resp').row
  /\ ( /\ resp.op = "createConversation" /\ resp.status = 201
       /\ resp'.op = "deactivateConversationById"
       /\ resp'.args.id = Carried(resp).row.id )
     => /\ resp'.status = 200
        /\ conversation'[resp'.args.id].active = FALSE
  /\ resp'.op \in {"getAllConversationsByUserId", "getConversationById"}
     => UNCHANGED <<conversation, message>>
  /\ \A id \in Ids :
       conversation[id].active = FALSE =>
         /\ resp'.op = "getAllConversationsByUserId" => id \notin ListedIds(resp')
         /\ (resp'.op = "getConversationById" /\ resp'.args.id = id)
            => /\ resp'.status = 200
               /\ Carried(resp').row.id = id
               /\ Carried(resp').row.active = FALSE
C1_Lifecycle == [][C1_Step]_vars

\* A conversation created in this run was deactivated and then fetched by id.
C1_Witness ==
  /\ resp.op = "getConversationById" /\ resp.status = 200
  /\ resp.args.id \notin SeedIds
  /\ Carried(resp).row.active = FALSE
  /\ Carried(resp).row.parameters = EmptyObjectText

\* C2: for an existing user, getAllConversationsByUserId returns 200 with
\* exactly the stored conversations of that user whose active flag is true,
\* and 404 exactly when there is none.
C2_ListIsActiveOfUser ==
  ( /\ resp.op = "getAllConversationsByUserId"
    /\ resp.args.idUser > 0 /\ UserExists(resp.args.idUser) )
  => LET mine == {i \in Ids : /\ conversation[i].idUser = resp.args.idUser
                              /\ conversation[i].active}
     IN  /\ (resp.status = 404) <=> (mine = {})
         /\ (resp.status = 200) <=> (mine # {})
         /\ resp.status = 200 =>
              /\ ListedIds(resp) = mine
              /\ \A v \in resp.data :
                   /\ v.row = ScalarsOf(conversation[v.row.id])
                   /\ v.tags = conversation[v.row.id].tags

\* A list was returned while the same user also has an inactive conversation.
C2_Witness ==
  /\ resp.op = "getAllConversationsByUserId" /\ resp.status = 200
  /\ \E i \in Ids : /\ conversation[i].idUser = resp.args.idUser
                    /\ ~conversation[i].active

\* C3: deleteConversationById of an existing conversation removes its messages
\* in a step that leaves the row in place, then removes the row and returns
\* 200; from then on the id has no row, no message references it, and
\* getConversationById of it returns 404.
C3_Step ==
  /\ (pc = "idle" /\ pc' = "delete")
     => /\ conversation' = conversation
        /\ \A m \in message' : m.idConversation # pcId'
  /\ (pc = "delete" /\ pcId \in Ids)
     => /\ \A m \in message : m.idConversation # pcId
        /\ pcId \notin DOMAIN conversation'
        /\ resp'.op = "deleteConversationById" /\ resp'.status = 200
  /\ \A id \in 1 .. (nextId - 1) :
       id \notin Ids =>
         /\ id \notin DOMAIN conversation'
         /\ \A m \in message' : m.idConversation # id
         /\ (resp'.op = "getConversationById" /\ resp'.args.id = id)
            => resp'.status = 404
C3_DeleteIsFinal == [][C3_Step]_vars

\* The seeded conversation and its messages are gone and a fetch returned 404.
C3_Witness ==
  /\ resp.op = "getConversationById" /\ resp.args.id = 1 /\ resp.status = 404
  /\ 1 \notin Ids
  /\ message = {}

\* C4: deactivateConversationById of an existing conversation sets that row's
\* active flag to false and changes nothing else (no other column, no tag, no
\* message, no other row), and a getConversationById right after returns the
\* row, status 200, with its tags and messages.
C4_Step ==
  /\ (resp'.op = "deactivateConversationById" /\ resp'.args.id \in Ids)
     => /\ resp'.status = 200
        /\ conversation' =
             [conversation EXCEPT ![resp'.args.id].active = FALSE]
        /\ message' = message
  /\ ( /\ resp.op = "deactivateConversationById" /\ resp.status = 200
       /\ resp'.op = "getConversationById" /\ resp'.args.id = resp.args.id )
     => /\ resp'.status = 200
        /\ Carried(resp').row = ScalarsOf(conversation[resp.args.id])
        /\ Carried(resp').tags = conversation[resp.args.id].tags
        /\ Carried(resp').messages = MessagesOf(resp.args.id)
C4_DeactivateFrame == [][C4_Step]_vars

\* The seeded conversation, with its tag and its messages, is inactive and was
\* fetched by id.
C4_Witness ==
  /\ resp.op = "getConversationById" /\ resp.status = 200 /\ resp.args.id = 1
  /\ Carried(resp).row.active = FALSE
  /\ Carried(resp).tags # {}
  /\ Carried(resp).messages # {}


\* A title that is given and is blank once trimmed.
BlankTitle(t) == t.def /\ Trim(t.v) = EmptyString

\* C5: for an id > 0 that has no row, updateConversationById (its title
\* accepted), deactivateConversationById and deleteConversationById return
\* 404 'Conversation not found' and leave the tables as they are.
C5_Step ==
  ( /\ resp'.op \in {"updateConversationById", "deactivateConversationById",
                     "deleteConversationById"}
    /\ resp'.status # 0
    /\ resp'.args.id > 0 /\ resp'.args.id \notin Ids
    /\ resp'.op = "updateConversationById" => ~BlankTitle(resp'.args.updatedInfo.title) )
  => /\ resp'.status = 404
     /\ resp'.message = "Conversation not found"
     /\ UNCHANGED <<conversation, message>>
C5_MissingIs404 == [][C5_Step]_vars

\* C6: updateConversationParameters returns 400 and writes nothing for a
\* payload areValidModelParameters rejects; for a payload it accepts and an
\* existing conversation it returns 200 and the stored parameters are the
\* payload, nothing of the previous value kept, nothing else changed.
C6_Step ==
  resp'.op = "updateConversationParameters" =>
    /\ ~areValidModelParameters(resp'.args.parameters)
       => /\ resp'.status = 400
          /\ UNCHANGED <<conversation, message>>
    /\ (areValidModelParameters(resp'.args.parameters) /\ resp'.args.id \in Ids)
       => /\ resp'.status = 200
          /\ conversation' =
               [conversation EXCEPT ![resp'.args.id].parameters = resp'.args.parameters]
          /\ Carried(resp').row.parameters = resp'.args.parameters
          /\ message' = message
C6_ParametersReplaced == [][C6_Step]_vars

\* A payload without userContext was accepted and is what the row now holds.
C6_Witness ==
  /\ resp.op = "updateConversationParameters" /\ resp.status = 200
  /\ resp.args.parameters = PayloadTemp
  /\ conversation[resp.args.id].parameters = PayloadTemp

\* The text of user 1's defaults for model "gpt-4", token by token.
Gpt4DefaultsText ==
  Text(<<LBrace, Tok("str", "temperature"), Colon, Tok("num", "0.5"), RBrace>>)

C8_Step ==
  \A id \in DOMAIN conversation' \ Ids :
    /\ conversation'[id].active = TRUE
    /\ resp'.op = "createConversation" /\ resp'.status = 201
    /\ Carried(resp').row.id = id
    /\ Carried(resp').row.active = TRUE
C8_CreatedActive == [][C8_Step]_vars

\* A call that supplied active=false made an active row.
C8_Witness ==
  /\ resp.op = "createConversation" /\ resp.status = 201
  /\ resp.args.active = "false"
  /\ conversation[Carried(resp).row.id].active = TRUE

\* C9: every stored conversation references an existing user and model;
\* createConversation returns 400 when idUser, idModel or title is falsy, 404
\* when the user does not exist, 404 when the model does not exist, and in
\* all three cases creates no row.
C9_Step ==
  /\ \A id \in DOMAIN conversation' :
       /\ UserExists(conversation'[id].idUser)
       /\ ModelExists(conversation'[id].idModel)
  /\ resp'.op = "createConversation" =>
       LET in == resp'.args
           falsy == in.idUser = 0 \/ in.idModel = 0 \/ ~in.title.def
                      \/ in.title.v = << >>
       IN  /\ falsy => resp'.status = 400
           /\ (~falsy /\ in.idUser \notin DOMAIN UserTable) =>
                (resp'.status = 404 /\ resp'.message = "User not found")
           /\ (~falsy /\ in.idUser \in DOMAIN UserTable
                 /\ in.idModel \notin DOMAIN ModelTable) =>
                (resp'.status = 404 /\ resp'.message = "Model not found")
           /\ resp'.status \in {400, 404} =>
                UNCHANGED <<conversation, message, nextId>>
C9_ReferencesExist == [][C9_Step]_vars

\* A create for an existing user and a missing model was answered 404.
C9_Witness ==
  /\ resp.op = "createConversation" /\ resp.status = 404
  /\ resp.message = "Model not found"
  /\ UserExists(resp.args.idUser) /\ ~ModelExists(resp.args.idModel)
  /\ \A id \in Ids : UserExists(conversation[id].idUser)

\* C10: updateConversationById with a valid id returns 400 and writes nothing
\* whenever the title is given and blank once trimmed, and a title is written
\* only when it is not blank.
C10_Step ==
  /\ ( /\ resp'.op = "updateConversationById"
       /\ resp'.args.id > 0
       /\ BlankTitle(resp'.args.updatedInfo.title) )
     => /\ resp'.status = 400
        /\ UNCHANGED <<conversation, message>>
  /\ \A id \in Ids \cap DOMAIN conversation' :
       conversation'[id].title # conversation[id].title
         => Trim(conversation'[id].title) # EmptyString
C10_BlankTitleRejected == [][C10_Step]_vars


\* C11: an updateConversationById that succeeds with a tag list leaves the
\* conversation with exactly the tags of the list (none for an empty list),
\* and one without a tag list leaves its tags as they were; in both cases the
\* active flag, the parameters, the messages and every other row are unchanged.
C11_Step ==
  (resp'.op = "updateConversationById" /\ resp'.status = 200)
  => LET id == resp'.args.id
         tags == resp'.args.updatedInfo.tags
     IN  /\ id \in Ids /\ id \in DOMAIN conversation'
         /\ tags.def => conversation'[id].tags = tags.ids
         /\ ~tags.def => conversation'[id].tags = conversation[id].tags
         /\ Carried(resp').tags = conversation'[id].tags
         /\ conversation'[id].active = conversation[id].active
         /\ conversation'[id].parameters = conversation[id].parameters
         /\ message' = message
         /\ \A other \in Ids \ {id} :
              other \in DOMAIN conversation' /\ conversation'[other] = conversation[other]
C11_TagsReplaced == [][C11_Step]_vars

\* The first write of the run gave the seeded conversation, tagged 1, the
\* list [2], and its only tag is now 2.
C11_Witness ==
  /\ resp.op = "updateConversationById" /\ resp.status = 200
  /\ resp.args.id = 1 /\ writes = 1
  /\ resp.args.updatedInfo.tags = TagList({2})
  /\ conversation[1].tags = {2}

\* C12: deactivateAllConversationsByUserId returns 404 and changes nothing for
\* a user that does not exist; for an existing user every conversation of the
\* user is inactive afterwards and every other conversation is unchanged, and
\* the call returns 404 when it matched no row and otherwise 200 with the
\* number of rows it matched as count.
C12_Step ==
  resp'.op = "deactivateAllConversationsByUserId" =>
    LET u == resp'.args.idUser
        mine == {i \in Ids : conversation[i].idUser = u}
    IN  /\ u \notin DOMAIN UserTable
           => (resp'.status = 404 /\ UNCHANGED <<conversation, message>>)
        /\ u \in DOMAIN UserTable
           => /\ DOMAIN conversation' = Ids
              /\ \A i \in mine :
                   conversation'[i] = [conversation[i] EXCEPT !.active = FALSE]
              /\ \A i \in Ids \ mine : conversation'[i] = conversation[i]
              /\ message' = message
              /\ (resp'.status = 404) <=> (mine = {})
              /\ (resp'.status = 200) <=> (mine # {})
              /\ resp'.status = 200 => resp'.data = {[count |-> Cardinality(mine)]}
C12_DeactivateAll == [][C12_Step]_vars

\* The call deactivated the rows of one user while another user's row stayed
\* active.
C12_Witness ==
  /\ resp.op = "deactivateAllConversationsByUserId" /\ resp.status = 200
  /\ \E i \in Ids : /\ conversation[i].idUser = resp.args.idUser
                    /\ ~conversation[i].active
  /\ \E i \in Ids : /\ conversation[i].idUser # resp.args.idUser
                    /\ conversation[i].active


\* The conversation seeded with messages is at rest with its row in place and
\* its messages gone.
Orphaned(conversations, messages, at) ==
  /\ at = "idle"
  /\ 1 \in DOMAIN conversations
  /\ {m \in messages : m.idConversation = 1} = {}

\* C16: deleteConversationById is not atomic. Messages are removed only by
\* its first write, and only those of the id it was called with; no request
\* that is a single step leaves the row in place with its messages gone; a
\* delete of the conversation that ends so is one whose conversation.delete
\* failed after message.deleteMany succeeded, and it answers 500 with the
\* error's message. A call that answers 200 has removed the row and its messages, a
\* call that answers 400 has removed neither, and no call answers 404.
C16_Step ==
  /\ message' # message
     => /\ pc = "idle" /\ pc' = "delete"
        /\ \A m \in message \ message' : m.idConversation = pcId'
  /\ pc = "idle" /\ ~Orphaned(conversation, message, pc)
     => ~Orphaned(conversation', message', pc')
  /\ (pc = "delete" /\ pcId = 1 /\ Orphaned(conversation', message', pc'))
     => resp' = Response("deleteConversationById", [id |-> 1], 500,
                         DatabaseUnreachable, {})
  /\ (resp'.op = "deleteConversationById" /\ pc' = "idle")
     => LET id == resp'.args.id
        IN  /\ resp'.status \in {200, 400, 500}
            /\ resp'.status = 200
               => /\ pc = "delete" /\ id \in Ids
                  /\ id \notin DOMAIN conversation'
                  /\ {m \in message' : m.idConversation = id} = {}
            /\ resp'.status = 400
               => /\ pc = "idle" /\ UNCHANGED <<conversation, message>>
            /\ resp'.status = 500
               => /\ UNCHANGED <<conversation, message>>
                  /\ resp'.message \in {DatabaseUnreachable, RecordToDeleteNotFound}
Occurrences(text, c) == Cardinality({i \in 1 .. Len(text) : text[i] = c})

\* The global contexts and temperature of the user the modal was given, the
\* contexts empty when there are none.
GlobalOf(m, field) == IF m.prismaUser.loaded THEN m.prismaUser[field] ELSE EmptyString

\* The free text saved is as the claim has it: with the switch on, the global
\* context, a space and the local text, the global context in it once; with
\* the switch off the local text, the global context not in it.
SavedTextAsClaimed(m, field, local, mark) ==
  LET savedText == m.saved.parameters[field]
  IN  IF m.isSelected
        THEN /\ savedText = Concatenated(GlobalOf(m, field), local)
             /\ Occurrences(savedText, mark) = Occurrences(GlobalOf(m, field), mark)
        ELSE /\ savedText = local
             /\ Occurrences(savedText, mark) = 0

\* C13: whatever texts were edited and however the switch was flipped, the
\* userContext and responseContext handed to saveParameters on Save are, with
\* the switch on, the user's global context concatenated once with the text
\* typed locally and, with the switch off, the text typed locally with no
\* global context in it; and no step of the modal writes to the database.
C13_Step ==
  modal' # modal
  => /\ UNCHANGED vars
     /\ (modal'.mounted /\ modal'.saved.called)
        => /\ SavedTextAsClaimed(modal', "userContext",
                                 modal'.updatedUserContext, "G")
           /\ SavedTextAsClaimed(modal', "responseContext",
                                 modal'.updatedResponseContext, "R")
C13_SavedContexts == [][C13_Step]_allVars

\* C14: with the switch on, the temperature handed to saveParameters is the
\* user's global temperature, for every global temperature of the slider's
\* range, zero included, wherever the slider was moved; with the switch off
\* it is the last value of the slider, or the temperature prop if the slider
\* was never moved.
C14_SavedTemperature ==
  (modal.mounted /\ modal.saved.called)
  => LET savedTemperature == modal.saved.parameters.temperature
     IN  /\ (modal.isSelected /\ modal.prismaUser.loaded)
            => savedTemperature = modal.prismaUser.temperature
         /\ ~modal.isSelected => savedTemperature = modal.updatedTemperature


\* The window stands at the end of the list, or an effect that will bring it
\* there is pending.
AtBottomOrScheduled(l) == l.viewport = l.messages \/ l.effectPending

\* C15: MessageList scrolls to the bottom on mount, on every update that
\* appends a message to the messages prop and on every press of the button;
\* after each of these autoScroll returns to false.
C15_Step ==
  /\ (~list.mounted /\ list'.mounted) => AtBottomOrScheduled(list')
  /\ (list.mounted /\ list'.messages > list.messages) => AtBottomOrScheduled(list')
  /\ (list.mounted /\ ~list.autoScroll /\ list'.autoScroll)
     => list'.viewport = list'.messages
C15_ScrollsToBottom ==
  /\ [][C15_Step]_allVars
  /\ (list.mounted /\ list.autoScroll) ~> (list.mounted /\ ~list.autoScroll)

====
